---- MODULE Spec2Model ----
(***************************************************************************)
(* WebsiteUpNotificationBot (src/bot.py): the subscriber store kept in     *)
(* SQLite (BotDatabase), the in-memory availability tracker                *)
(* (WebsiteMonitor), the monitoring loop (start_monitoring) and the        *)
(* button handlers that write to the store.                                *)
(*                                                                         *)
(* Three specifications:                                                   *)
(*   StoreSpec  the BotDatabase methods called in any order by any caller  *)
(*              (the Subscriber Store contract);                           *)
(*   Spec       the running bot: one asyncio event loop running the        *)
(*              monitoring coroutine of the first ready event, the one a   *)
(*              later ready event starts, and the button handlers, with    *)
(*              process restarts;                                          *)
(*   ReadySpec  the two monitoring coroutines alone, on a store that       *)
(*              holds one user.                                            *)
(***************************************************************************)
EXTENDS Integers, Sequences, FiniteSets, TLC

\* ------------------------------------------------------------------ bounds
\* Number of distinct Discord user ids that ever talk to the bot.
NumUsers == 2
\* Number of entries of urls_to_check in config.yaml.
NumUrls == 2
\* bot.py:13 has 10000; scaled down so that the store can hold more users
\* than the cap.  No statement and no method of bot.py reads it.
MAX_USER_CAP == 1

Users == 1..NumUsers
\* config.urls_to_check: the URLs are named by their position in the list.
urls_to_check == [n \in 1..NumUrls |-> n]

None == "None"

\* ------------------------------------------------------------------ SQLite
\* The database file: whether table users exists, and its rows in rowid
\* order.  Column id (AUTOINCREMENT) is never selected; it only fixes the
\* order in which rows are returned, which is the order of the sequence.
NoTable == [exists |-> FALSE, rows |-> <<>>]

NewRow(user_id) == [discord_user_id |-> user_id, is_subscribed |-> TRUE]

RowsOf(rows, user_id) ==
  LET Match(r) == r.discord_user_id = user_id IN SelectSeq(rows, Match)

\* What cursor.execute(statement) does on the connection's view w of the
\* file: the view after it, the fetched value, and whether it raised.
Executed(w, value) == [db |-> w, value |-> value, err |-> FALSE]
NoSuchTable(w) == [db |-> w, value |-> None, err |-> TRUE]

CREATE_DROPPING(w) == Executed([exists |-> TRUE, rows |-> <<>>], None)

CREATE_STATEMENT(w) ==
  IF w.exists THEN Executed(w, None)
  ELSE Executed([exists |-> TRUE, rows |-> <<>>], None)

GET_USER_COUNT_STATEMENT(w) ==
  IF ~w.exists THEN NoSuchTable(w) ELSE Executed(w, Len(w.rows))

GET_USER_STATEMENT(w) ==
  IF ~w.exists THEN NoSuchTable(w)
  ELSE LET Sub(r) == r.is_subscribed
           sel == SelectSeq(w.rows, Sub)
       IN Executed(w, [n \in 1..Len(sel) |-> sel[n].discord_user_id])

EXISTS_USER_STATEMENT(w, user_id) ==
  IF ~w.exists THEN NoSuchTable(w)
  ELSE Executed(w, Len(RowsOf(w.rows, user_id)))

ADD_USER_NOT_UNIQUE(w, user_id) ==
  IF ~w.exists THEN NoSuchTable(w)
  ELSE Executed([w EXCEPT !.rows = Append(@, NewRow(user_id))], None)

\* INSERT OR IGNORE with discord_user_id UNIQUE: a conflicting row is skipped.
ADD_USER_STATEMENT(w, user_id) ==
  IF ~w.exists THEN NoSuchTable(w)
  ELSE IF Len(RowsOf(w.rows, user_id)) > 0 THEN Executed(w, None)
  ELSE Executed([w EXCEPT !.rows = Append(@, NewRow(user_id))], None)

REMOVE_USER_NOTHING(w, user_id) ==
  IF ~w.exists THEN NoSuchTable(w) ELSE Executed(w, None)

REMOVE_USER_FLAG(w, user_id) ==
  IF ~w.exists THEN NoSuchTable(w)
  ELSE Executed([w EXCEPT !.rows =
                   [n \in 1..Len(@) |->
                      IF @[n].discord_user_id = user_id
                      THEN [@[n] EXCEPT !.is_subscribed = FALSE] ELSE @[n]]], None)

REMOVE_USER_ALL(w, user_id) ==
  IF ~w.exists THEN NoSuchTable(w)
  ELSE Executed([w EXCEPT !.rows = <<>>], None)

REMOVE_USER_STATEMENT(w, user_id) ==
  IF ~w.exists THEN NoSuchTable(w)
  ELSE LET Keep(r) == r.discord_user_id # user_id
       IN Executed([w EXCEPT !.rows = SelectSeq(@, Keep)], None)

\* Where the backing medium fails during one `with db_conn(path)` block.
FailPoints == {"none", "connect", "execute", "commit"}

Raised(file) == [db |-> file, raised |-> TRUE, value |-> None]

db_conn_no_rollback(file, ex, fail) ==
  IF fail = "connect" THEN Raised(file)
  ELSE IF ex.err \/ fail = "execute" THEN Raised(file)
  ELSE IF fail = "commit" THEN [db |-> ex.db, raised |-> FALSE, value |-> ex.value]
  ELSE [db |-> ex.db, raised |-> FALSE, value |-> ex.value]

\* db_conn: connect (outside the try), run the block, commit; on any
\* exception roll back and re-raise.  ex is what the block's execute does
\* on the connection's view of the file.
db_conn(file, ex, fail) ==
  IF fail = "connect" THEN Raised(file)
  ELSE IF ex.err \/ fail = "execute" THEN Raised(file)
  ELSE IF fail = "commit" THEN Raised(file)
  ELSE [db |-> ex.db, raised |-> FALSE, value |-> ex.value]

\* ------------------------------------------------------------ BotDatabase
ensure_created(file, fail) == db_conn(file, CREATE_STATEMENT(file), fail)

get_user_count(file, fail) == db_conn(file, GET_USER_COUNT_STATEMENT(file), fail)

get_subscribed_users(file, fail) == db_conn(file, GET_USER_STATEMENT(file), fail)

subscribe_user(file, user_id, fail) ==
  db_conn(file, ADD_USER_STATEMENT(file, user_id), fail)

unsubscribe_user(file, user_id, fail) ==
  db_conn(file, REMOVE_USER_STATEMENT(file, user_id), fail)

is_user_subscribed(file, user_id, fail) ==
  LET r == db_conn(file, EXISTS_USER_STATEMENT(file, user_id), fail)
  IN IF r.raised THEN r ELSE [r EXCEPT !.value = (r.value = 1)]

\* ------------------------------------------------------- WebsiteMonitor
\* What requests.head(url) can do: answer with a status code, raise a
\* requests.RequestException (ConnectionError, Timeout), or raise something
\* that is no RequestException (OSError stands for all of those).
Responses == {"200", "404"}
RequestExceptions == {"ConnectionError", "Timeout"}
OtherExceptions == {"OSError"}
ProbeOutcomes == Responses \cup RequestExceptions \cup OtherExceptions

check_url_available_any_response(outcome) ==
  IF outcome \in Responses THEN [raised |-> FALSE, value |-> TRUE]
  ELSE IF outcome \in RequestExceptions THEN [raised |-> FALSE, value |-> FALSE]
  ELSE [raised |-> TRUE, value |-> None]

\* check_url_available: status_code == 200; except requests.RequestException:
\* False.  Any other exception leaves the function.
check_url_available(outcome) ==
  IF outcome \in Responses THEN [raised |-> FALSE, value |-> (outcome = "200")]
  ELSE IF outcome \in RequestExceptions THEN [raised |-> FALSE, value |-> FALSE]
  ELSE [raised |-> TRUE, value |-> None]

\* self._url_status is a dict: a sequence of [url, available] entries in
\* insertion order, one entry per key.
Keys(status) == {status[n].url : n \in 1..Len(status)}

SetItem_keep_first(status, url, available) ==
  IF url \in Keys(status) THEN status
  ELSE Append(status, [url |-> url, available |-> available])

\* self._url_status[url] = available
SetItem(status, url, available) ==
  IF url \in Keys(status)
  THEN [n \in 1..Len(status) |->
          IF status[n].url = url THEN [url |-> url, available |-> available]
          ELSE status[n]]
  ELSE Append(status, [url |-> url, available |-> available])

\* The Python values True, False and None of url_status_for.
PyBool(b) == IF b THEN "True" ELSE "False"

Item(status, url) == CHOOSE e \in {status[n] : n \in 1..Len(status)} : e.url = url

\* url_status_for: self._url_status.get(url), None for a missing key.
url_status_for(status, url) ==
  IF url \in Keys(status) THEN PyBool(Item(status, url).available) ELSE None

\* monitor(): the for loop over urls_to_check from position n on, where
\* outcomes[n] is what requests.head does for the n-th URL.  done is the
\* number of URLs whose result was recorded before the loop ended.
RECURSIVE monitor_from(_, _, _)
monitor_from(status, n, outcomes) ==
  IF n > NumUrls THEN [status |-> status, raised |-> FALSE, done |-> NumUrls]
  ELSE LET a == check_url_available(outcomes[n])
       IN IF a.raised THEN [status |-> status, raised |-> TRUE, done |-> n - 1]
          ELSE monitor_from(SetItem(status, urls_to_check[n], a.value), n + 1, outcomes)

monitor(status, outcomes) == monitor_from(status, 1, outcomes)

\* ------------------------------------------------------------------ state
VARIABLES
  db,          \* the SQLite file at config.database_path
  call,        \* StoreSpec: the most recent BotDatabase call (method,
               \* argument, where the medium failed, the file before it,
               \* whether it raised, the value it returned)
  url_status,  \* WebsiteMonitor._url_status
  pc,          \* where the start_monitoring coroutine stands
  i,           \* position of `for url, available in ...items()` (line 339)
  users,       \* the list get_subscribed_users() returned at line 345
  j,           \* position of `for user_id in ...` (line 345)
  probes,      \* per URL, what requests.head did in the latest monitor()
               \* call of this process ("unprobed": no call yet, "skipped":
               \* monitor() ended before reaching the URL)
  tried,       \* per (url, user): delivery attempts ended, by any
               \* coroutine, since the latest monitor() call
  sent,        \* per (url, user): user.send calls that returned, in any
               \* coroutine, since the latest monitor() call
  attempted,   \* the users of `users` whose try block (lines 346-355)
               \* has ended in the dispatch under way
  prev_status, \* _url_status as the process before this one left it, until
               \* this process calls monitor()
  left,        \* users whose unsubscribe_button ran to "Successfully
               \* unsubscribed" and whose subscribe_button has not run to
               \* "Successfully subscribed" since
  extra        \* the start_monitoring coroutine of a second
               \* ready event (its pc, i, users, j)

storeVars == <<db, call>>
botVars == <<url_status, pc, i, users, j, probes, tried, sent, attempted, prev_status, left, extra>>
vars ==
  <<db, call, url_status, pc, i, users, j, probes, tried, sent, attempted, prev_status,
    left, extra>>

Pairs == (1..NumUrls) \X Users
Zero == [p \in Pairs |-> 0]
Unprobed == [n \in 1..NumUrls |-> "unprobed"]

InStore(file) == {file.rows[n].discord_user_id : n \in 1..Len(file.rows)}

WebsiteMonitor_init_prefilled ==
  [n \in 1..NumUrls |-> [url |-> urls_to_check[n], available |-> FALSE]]

\* WebsiteMonitor.__init__: self._url_status = {}
WebsiteMonitor_init == <<>>

\* No coroutine has been started for a second ready event.
NoCoroutine == [pc |-> "none", i |-> 0, users |-> <<>>, j |-> 0]

BotInit ==
  /\ url_status = WebsiteMonitor_init
  /\ pc = "none"
  /\ i = 0
  /\ users = <<>>
  /\ j = 0
  /\ probes = Unprobed
  /\ tried = Zero
  /\ sent = Zero
  /\ attempted = {}
  /\ prev_status = <<>>
  /\ left = {}
  /\ extra = NoCoroutine

\* ------------------------------------------------------ the store contract
Call(op, user_id, fail, pre, r) ==
  [op |-> op, user_id |-> user_id, fail |-> fail, pre |-> pre,
   raised |-> r.raised, value |-> r.value]

NoCall ==
  [op |-> "none", user_id |-> 0, fail |-> "none", pre |-> NoTable,
   raised |-> FALSE, value |-> None]

\* One BotDatabase call by a caller of the store: r is what the method does.
Does(op, user_id, fail, r) ==
  /\ db' = r.db
  /\ call' = Call(op, user_id, fail, db, r)
  /\ UNCHANGED botVars

EnsureCreated ==
  \E f \in FailPoints : Does("ensure_created", 0, f, ensure_created(db, f))

GetUserCount ==
  \E f \in FailPoints : Does("get_user_count", 0, f, get_user_count(db, f))

GetSubscribedUsers ==
  \E f \in FailPoints : Does("get_subscribed_users", 0, f, get_subscribed_users(db, f))

SubscribeUser ==
  \E u \in Users, f \in FailPoints :
    Does("subscribe_user", u, f, subscribe_user(db, u, f))

UnsubscribeUser ==
  \E u \in Users, f \in FailPoints :
    Does("unsubscribe_user", u, f, unsubscribe_user(db, u, f))

IsUserSubscribed ==
  \E u \in Users, f \in FailPoints :
    Does("is_user_subscribed", u, f, is_user_subscribed(db, u, f))

StoreInit == db = NoTable /\ call = NoCall /\ BotInit

StoreNext ==
  \/ EnsureCreated
  \/ GetUserCount
  \/ GetSubscribedUsers
  \/ SubscribeUser
  \/ UnsubscribeUser
  \/ IsUserSubscribed

StoreSpec == StoreInit /\ [][StoreNext]_vars

\* ------------------------------------------------------------ the bot
\* The asyncio event loop runs one coroutine at a time, from one await to
\* the next.  The monitoring coroutine gives way at `await fetch_user`,
\* `await user.send` and `await asyncio.sleep`; before on_ready and after
\* an exception has ended it, it does not hold the loop either.
Yielded == pc \in {"none", "fetch", "send", "sleep", "dead"}

\* The same of the coroutine a second ready event starts.
XYielded == extra.pc \in {"none", "fetch", "send", "sleep", "dead"}

\* on_ready -> start_monitoring: `while True` is entered.  The first ready
\* event of a process is followed.
OnReady ==
  /\ pc = "none"
  /\ XYielded
  /\ pc' = "monitor"
  /\ UNCHANGED <<db, call, left, extra, url_status, i, users, j, probes, tried, sent, attempted, prev_status>>

\* Line 337: self._website_monitor.monitor(), a plain call with no await in
\* it.  An exception that leaves it leaves start_monitoring and on_ready.
Monitor ==
  /\ pc = "monitor"
  /\ \E outcomes \in [1..NumUrls -> ProbeOutcomes] :
       LET r == monitor(url_status, outcomes)
       IN /\ url_status' = r.status
          /\ probes' = [n \in 1..NumUrls |->
                          IF n <= r.done + 1 THEN outcomes[n] ELSE "skipped"]
          /\ pc' = IF r.raised THEN "dead" ELSE "items"
          /\ i' = IF r.raised THEN 0 ELSE 1
  /\ prev_status' = <<>>
  /\ tried' = Zero
  /\ sent' = Zero
  /\ UNCHANGED <<db, call, left, extra, users, j, attempted>>

\* Line 340: `if not available: ... continue`
items_skip(entry) == ~entry.available

\* Lines 339-345: the next item of url_status.items(); for an available URL
\* the subscriber list is read.  A StorageError is caught nowhere.
NextUrl ==
  /\ pc = "items"
  /\ IF i > Len(url_status)
     THEN /\ pc' = "sleep"
          /\ i' = 0
          /\ UNCHANGED <<users, j>>
     ELSE IF items_skip(url_status[i])
     THEN /\ i' = i + 1
          /\ UNCHANGED <<pc, users, j>>
     ELSE \E f \in FailPoints :
            LET r == get_subscribed_users(db, f)
            IN IF r.raised
               THEN /\ pc' = "dead"
                    /\ UNCHANGED <<i, users, j>>
               ELSE /\ pc' = "users"
                    /\ users' = r.value
                    /\ j' = 1
                    /\ UNCHANGED i
  /\ attempted' = {}
  /\ UNCHANGED <<db, call, left, extra, url_status, probes, tried, sent, prev_status>>

\* Line 345: the next user_id of the list, or the end of the list.
NextUser ==
  /\ pc = "users"
  /\ IF j > Len(users)
     THEN /\ pc' = "items"
          /\ i' = i + 1
          /\ users' = <<>>
          /\ j' = 0
          /\ attempted' = {}
     ELSE /\ pc' = "fetch"
          /\ UNCHANGED <<i, users, j, attempted>>
  /\ UNCHANGED <<db, call, left, extra, url_status, probes, tried, sent, prev_status>>

except_reraise(jj) == [pc |-> "dead", j |-> jj]

\* Lines 354-355: `except Exception as e: print(...)`, then the next user.
except_Exception(jj) == [pc |-> "users", j |-> jj + 1]

Pair == <<url_status[i].url, users[j]>>

\* Line 347: `await self.fetch_user(user_id)` returns or raises.
FetchUser ==
  /\ pc = "fetch"
  /\ XYielded
  /\ \E ok \in BOOLEAN :
       IF ok
       THEN /\ pc' = "send"
            /\ UNCHANGED <<j, tried, attempted>>
       ELSE /\ pc' = except_Exception(j).pc
            /\ j' = except_Exception(j).j
            /\ tried' = [tried EXCEPT ![Pair] = @ + 1]
            /\ attempted' = attempted \cup {users[j]}
  /\ UNCHANGED <<db, call, left, extra, url_status, i, users, probes, sent, prev_status>>

\* Line 353: `await user.send(embed=embed)` returns or raises.
SendUser ==
  /\ pc = "send"
  /\ XYielded
  /\ tried' = [tried EXCEPT ![Pair] = @ + 1]
  /\ attempted' = attempted \cup {users[j]}
  /\ \E ok \in BOOLEAN :
       IF ok
       THEN /\ pc' = "users"
            /\ j' = j + 1
            /\ sent' = [sent EXCEPT ![Pair] = @ + 1]
       ELSE /\ pc' = except_Exception(j).pc
            /\ j' = except_Exception(j).j
            /\ UNCHANGED sent
  /\ UNCHANGED <<db, call, left, extra, url_status, i, users, probes, prev_status>>

\* Line 357: `await asyncio.sleep(url_check_delay)` returns.
Sleep ==
  /\ pc = "sleep"
  /\ XYielded
  /\ pc' = "monitor"
  /\ UNCHANGED <<db, call, left, extra, url_status, i, users, j, probes, tried, sent, attempted, prev_status>>

\* subscribe_button, from the return of `await defer` to `await
\* followup.send`: is_user_subscribed, then subscribe_user unless the user
\* is in the store.  An exception of either call ends the handler.  What
\* follows (update_buttons) only reads the store.  The file it leaves:
subscribe_button(file, user_id, f1, f2) ==
  LET r1 == is_user_subscribed(file, user_id, f1)
  IN IF r1.raised \/ r1.value THEN file ELSE subscribe_user(file, user_id, f2).db

\* unsubscribe_button, likewise: is_user_subscribed, then unsubscribe_user
\* if the user is in the store.
unsubscribe_button(file, user_id, f1, f2) ==
  LET r1 == is_user_subscribed(file, user_id, f1)
  IN IF r1.raised \/ ~r1.value THEN file ELSE unsubscribe_user(file, user_id, f2).db

\* Whether subscribe_button gets to "Successfully subscribed".
subscribe_button_done(file, user_id, f1, f2) ==
  LET r1 == is_user_subscribed(file, user_id, f1)
  IN IF r1.raised \/ r1.value THEN FALSE
     ELSE ~subscribe_user(file, user_id, f2).raised

\* Whether unsubscribe_button gets to "Successfully unsubscribed".
unsubscribe_button_done(file, user_id, f1, f2) ==
  LET r1 == is_user_subscribed(file, user_id, f1)
  IN IF r1.raised \/ ~r1.value THEN FALSE
     ELSE ~unsubscribe_user(file, user_id, f2).raised

\* A button handler runs when the event loop is free.
SubscribeButton ==
  /\ Yielded
  /\ XYielded
  /\ \E r \in {[db |-> subscribe_button(db, u, f1, f2),
                left |-> IF subscribe_button_done(db, u, f1, f2)
                         THEN left \ {u} ELSE left] :
                 u \in Users, f1 \in FailPoints, f2 \in FailPoints} :
       /\ db' = r.db
       /\ left' = r.left
  /\ UNCHANGED <<call, extra, url_status, pc, i, users, j, probes, tried, sent, attempted, prev_status>>

UnsubscribeButton ==
  /\ Yielded
  /\ XYielded
  /\ \E r \in {[db |-> unsubscribe_button(db, u, f1, f2),
                left |-> IF unsubscribe_button_done(db, u, f1, f2)
                         THEN left \cup {u} ELSE left] :
                 u \in Users, f1 \in FailPoints, f2 \in FailPoints} :
       /\ db' = r.db
       /\ left' = r.left
  /\ UNCHANGED <<call, extra, url_status, pc, i, users, j, probes, tried, sent, attempted, prev_status>>

\* The process ends (at any point) and is started again:
\* WebsiteMonitorClient.__init__ calls ensure_created and makes a new
\* WebsiteMonitor.  Only the file outlives the process.
Restart ==
  /\ db' = ensure_created(db, "none").db
  /\ url_status' = WebsiteMonitor_init
  /\ prev_status' = url_status
  /\ pc' = "none"
  /\ i' = 0
  /\ users' = <<>>
  /\ j' = 0
  /\ probes' = Unprobed
  /\ tried' = Zero
  /\ sent' = Zero
  /\ attempted' = {}
  /\ extra' = NoCoroutine
  /\ UNCHANGED <<call, left>>

Init ==
  /\ db = ensure_created(NoTable, "none").db
  /\ call = NoCall
  /\ BotInit

\* ---------------------------------------------------------------------
\* A second ready event.  on_ready (lines 304-305) awaits start_monitoring
\* whenever the event is dispatched, with no test of a loop already
\* running; discord.py dispatches it again after a reconnect that could not
\* resume the session.  The coroutine it starts is kept in `extra`.  Both
\* coroutines share the tracker and the store; one runs at a time, the
\* other standing at an await.

ReadyAgain ==
  /\ pc # "none"
  /\ Yielded
  /\ extra.pc = "none"
  /\ extra' = [extra EXCEPT !.pc = "monitor"]
  /\ UNCHANGED <<db, call, left, url_status, pc, i, users, j, probes, tried, sent, attempted, prev_status>>

XMonitor ==
  /\ extra.pc = "monitor"
  /\ \E outcomes \in [1..NumUrls -> ProbeOutcomes] :
       LET r == monitor(url_status, outcomes)
       IN /\ url_status' = r.status
          /\ probes' = [n \in 1..NumUrls |->
                          IF n <= r.done + 1 THEN outcomes[n] ELSE "skipped"]
          /\ extra' = [extra EXCEPT !.pc = IF r.raised THEN "dead" ELSE "items",
                                    !.i = IF r.raised THEN 0 ELSE 1]
  /\ prev_status' = <<>>
  /\ tried' = Zero
  /\ sent' = Zero
  /\ UNCHANGED <<db, call, left, pc, i, users, j, attempted>>

XNextUrl ==
  /\ extra.pc = "items"
  /\ IF extra.i > Len(url_status)
     THEN extra' = [extra EXCEPT !.pc = "sleep", !.i = 0]
     ELSE IF items_skip(url_status[extra.i])
     THEN extra' = [extra EXCEPT !.i = @ + 1]
     ELSE \E f \in FailPoints :
            LET r == get_subscribed_users(db, f)
            IN IF r.raised
               THEN extra' = [extra EXCEPT !.pc = "dead"]
               ELSE extra' = [extra EXCEPT !.pc = "users", !.users = r.value, !.j = 1]
  /\ UNCHANGED <<db, call, left, url_status, pc, i, users, j, probes, tried, sent, attempted, prev_status>>

XNextUser ==
  /\ extra.pc = "users"
  /\ IF extra.j > Len(extra.users)
     THEN extra' = [pc |-> "items", i |-> extra.i + 1, users |-> <<>>, j |-> 0]
     ELSE extra' = [extra EXCEPT !.pc = "fetch"]
  /\ UNCHANGED <<db, call, left, url_status, pc, i, users, j, probes, tried, sent, attempted, prev_status>>

XPair == <<url_status[extra.i].url, extra.users[extra.j]>>

XFetchUser ==
  /\ extra.pc = "fetch"
  /\ Yielded
  /\ \E ok \in BOOLEAN :
       IF ok
       THEN /\ extra' = [extra EXCEPT !.pc = "send"]
            /\ UNCHANGED tried
       ELSE /\ extra' = [extra EXCEPT !.pc = except_Exception(extra.j).pc,
                                      !.j = except_Exception(extra.j).j]
            /\ tried' = [tried EXCEPT ![XPair] = @ + 1]
  /\ UNCHANGED <<db, call, left, url_status, pc, i, users, j, probes, sent, attempted, prev_status>>

XSendUser ==
  /\ extra.pc = "send"
  /\ Yielded
  /\ tried' = [tried EXCEPT ![XPair] = @ + 1]
  /\ \E ok \in BOOLEAN :
       IF ok
       THEN /\ extra' = [extra EXCEPT !.pc = "users", !.j = @ + 1]
            /\ sent' = [sent EXCEPT ![XPair] = @ + 1]
       ELSE /\ extra' = [extra EXCEPT !.pc = except_Exception(extra.j).pc,
                                      !.j = except_Exception(extra.j).j]
            /\ UNCHANGED sent
  /\ UNCHANGED <<db, call, left, url_status, pc, i, users, j, probes, attempted, prev_status>>

XSleep ==
  /\ extra.pc = "sleep"
  /\ Yielded
  /\ extra' = [extra EXCEPT !.pc = "monitor"]
  /\ UNCHANGED <<db, call, left, url_status, pc, i, users, j, probes, tried, sent, attempted, prev_status>>

\* Everything that happens in a process: the first ready event and its
\* coroutine, a later ready event and its coroutine, the button handlers,
\* and the end of the process.
Next ==
  \/ OnReady
  \/ Monitor
  \/ NextUrl
  \/ NextUser
  \/ FetchUser
  \/ SendUser
  \/ Sleep
  \/ ReadyAgain
  \/ XMonitor
  \/ XNextUrl
  \/ XNextUser
  \/ XFetchUser
  \/ XSendUser
  \/ XSleep
  \/ SubscribeButton
  \/ UnsubscribeButton
  \/ Restart

Spec == Init /\ [][Next]_vars

\* The coroutines alone, with no button pressed and the process staying
\* up, on the store a process finds on its start: the one the process
\* before it left.  Here it holds the first user.
ReadyInit ==
  /\ db = subscribe_user(ensure_created(NoTable, "none").db, 1, "none").db
  /\ call = NoCall
  /\ BotInit

ReadyNext ==
  \/ OnReady
  \/ Monitor
  \/ NextUrl
  \/ NextUser
  \/ FetchUser
  \/ SendUser
  \/ Sleep
  \/ ReadyAgain
  \/ XMonitor
  \/ XNextUrl
  \/ XNextUser
  \/ XFetchUser
  \/ XSendUser
  \/ XSleep

ReadySpec == ReadyInit /\ [][ReadyNext]_vars

\* ================================================================= claims
\* What count() and list_subscribed() answer on a file when the medium works.
Count(file) == get_user_count(file, "none").value
Listed(file) == get_subscribed_users(file, "none").value
Present(file, user_id) == is_user_subscribed(file, user_id, "none").value

\* C1 (as claimed): subscribe of a new identity on a store holding
\* MAX_USER_CAP subscribers raises and writes nothing, and the store never
\* holds more than MAX_USER_CAP subscribers.
C1_CapacityEnforced ==
  /\ db.exists => Count(db) <= MAX_USER_CAP
  /\ ( /\ call.op = "subscribe_user"
       /\ call.pre.exists
       /\ Count(call.pre) = MAX_USER_CAP
       /\ ~Present(call.pre, call.user_id) )
     => (call.raised /\ db = call.pre)

\* C2: subscribe of an identity already in the store returns without error
\* and leaves count() and list_subscribed() as they were; the store never
\* holds two records of one identity.
C2_SubscribeIdempotent ==
  /\ \A u \in Users : Len(RowsOf(db.rows, u)) <= 1
  /\ ( /\ call.op = "subscribe_user"
       /\ call.fail = "none"
       /\ call.pre.exists
       /\ Present(call.pre, call.user_id) )
     => /\ ~call.raised
        /\ Count(db) = Count(call.pre)
        /\ Listed(db) = Listed(call.pre)

C2_Witness ==
  /\ call.op = "subscribe_user"
  /\ call.fail = "none"
  /\ call.pre.exists
  /\ Present(call.pre, call.user_id)
  /\ ~call.raised
  /\ Count(db) = 2

\* C3: unsubscribe of an identity that is not in the store raises nothing
\* and leaves the store as it was; unsubscribe of an identity that is in
\* the store removes that identity's record and no other record.
C3_UnsubscribeRemovesOnlyTarget ==
  ( /\ call.op = "unsubscribe_user"
    /\ call.fail = "none"
    /\ call.pre.exists )
  => /\ ~call.raised
     /\ ~Present(call.pre, call.user_id) => db = call.pre
     /\ Present(call.pre, call.user_id) =>
          /\ ~Present(db, call.user_id)
          /\ Count(db) = Count(call.pre) - 1
     /\ \A v \in Users \ {call.user_id} :
          RowsOf(db.rows, v) = RowsOf(call.pre.rows, v)

C3_Witness ==
  /\ call.op = "unsubscribe_user"
  /\ call.pre.exists
  /\ ~call.raised
  /\ Present(call.pre, call.user_id)
  /\ Count(call.pre) = 2
  /\ Count(db) = 1

\* C8: when the medium fails during a BotDatabase call, the file is what it
\* was before the call and the call raises.
C8_FailureRollsBackAndRaises ==
  /\ call.fail # "none" => call.raised
  /\ call.raised => db = call.pre

C8_Witness ==
  /\ call.op = "subscribe_user"
  /\ call.fail = "commit"
  /\ call.pre.exists
  /\ ~Present(call.pre, call.user_id)
  /\ call.raised
  /\ db = call.pre

\* C9: ensure_created on a file that already has the table succeeds and
\* leaves every record as it was.
C9_EnsureCreatedKeepsRecords ==
  ( /\ call.op = "ensure_created"
    /\ call.fail = "none"
    /\ call.pre.exists )
  => (~call.raised /\ db = call.pre)

C9_Witness ==
  /\ call.op = "ensure_created"
  /\ call.pre.exists
  /\ Count(call.pre) = 2
  /\ ~call.raised
  /\ db = call.pre

\* The dispatch of one Availability Event is under way.
Dispatching == pc \in {"users", "fetch", "send"}

Failed(p) == tried[p] > sent[p]

\* C4: within the dispatch of one event, every recipient of the list read
\* for it gets its delivery attempt whatever the earlier attempts did; a
\* failed attempt leaves the dispatch at the next recipient, and the
\* dispatch ends only at the end of the list, with the loop at the next URL.
C4_DeliveryIsolation ==
  /\ [](Dispatching => \A n \in 1..(j - 1) : users[n] \in attempted)
  /\ [][ /\ (pc \in {"fetch", "send"} /\ pc' # "none") =>
              /\ pc' \in {pc, "send", "users"}
              /\ i' = i /\ users' = users /\ j' \in {j, j + 1}
         /\ (pc = "users" /\ pc' # "none") =>
              \/ j <= Len(users) /\ pc' = "fetch" /\ i' = i
              \/ j > Len(users) /\ pc' = "items" /\ i' = i + 1 ]_vars

C4_Witness ==
  /\ pc = "users"
  /\ Len(users) = 2
  /\ j > Len(users)
  /\ Failed(<<url_status[i].url, users[1]>>)
  /\ sent[<<url_status[i].url, users[2]>>] = 1

\* C5 (as claimed): no user is ever sent two notifications for one URL
\* between two probe phases, nor one for a URL whose probe did not answer
\* 200; when a pass has ended, at the sleep or by an exception, in a
\* process with one monitoring coroutine, a user of the store for whom no
\* delivery failed has been sent exactly one notification for each URL
\* that answered 200 in the pass.  (Read where no button is pressed: the
\* users of the store stay subscribed.)
C5_LevelTriggered ==
  /\ \A p \in Pairs : sent[p] <= 1 /\ (probes[p[1]] # "200" => sent[p] = 0)
  /\ (pc \in {"sleep", "dead"} /\ extra.pc = "none") =>
       \A u \in InStore(db) :
         (\A n \in 1..NumUrls : ~Failed(<<urls_to_check[n], u>>)) =>
           \A n \in 1..NumUrls :
             sent[<<urls_to_check[n], u>>] = IF probes[n] = "200" THEN 1 ELSE 0

\* C6: what the tracker holds for a URL after a probe that answered or
\* raised a RequestException is True exactly if the answer had status 200.
C6_ProbeClassification ==
  \A n \in 1..NumUrls :
    probes[n] \in Responses \cup RequestExceptions =>
      url_status_for(url_status, urls_to_check[n]) = PyBool(probes[n] = "200")

C6_Witness ==
  /\ probes[1] = "404"
  /\ probes[2] = "200"
  /\ url_status_for(url_status, urls_to_check[1]) = "False"
  /\ url_status_for(url_status, urls_to_check[2]) = "True"

\* C7: as long as a URL has not been probed since the process started,
\* url_status_for answers None for it, neither True nor False, whatever the
\* tracker of the previous process held.
C7_UnknownAfterRestart ==
  \A n \in 1..NumUrls :
    probes[n] = "unprobed" => url_status_for(url_status, urls_to_check[n]) = None

C7_Witness ==
  /\ pc = "none"
  /\ url_status_for(prev_status, urls_to_check[1]) = "True"
  /\ url_status_for(prev_status, urls_to_check[2]) = "False"
  /\ \A n \in 1..NumUrls : url_status_for(url_status, urls_to_check[n]) = None

\* C10 (as claimed): once monitor() has been called, every URL has been
\* probed in that call and the tracker holds a result for it, False if the
\* probe raised, whatever the exception was.
C10_ProbeIsolation ==
  (\E n \in 1..NumUrls : probes[n] # "unprobed") =>
    \A n \in 1..NumUrls :
      /\ probes[n] # "skipped"
      /\ url_status_for(url_status, urls_to_check[n]) = PyBool(probes[n] = "200")

\* C11 (as claimed): the monitoring coroutine, once started, is never
\* ended by anything but the end of the process.
C11_LoopNeverEnds == pc # "dead"

\* The position in urls_to_check of the URL whose event is being dispatched.
Current == CHOOSE n \in 1..NumUrls : urls_to_check[n] = url_status[i].url

\* C12 (as claimed): while the event of one URL is being dispatched, no URL
\* after it in the configured order has been probed in this pass.
C12_DispatchBeforeNextProbe ==
  Dispatching =>
    \A n \in 1..NumUrls : n > Current => probes[n] \in {"unprobed", "skipped"}

\* C13: the tracker lists the URLs in the configured order; monitor() probes
\* them in that order (a URL is reached only if the probes before it
\* ended without leaving monitor()); when the coroutine is past monitor()
\* in a pass, the tracker holds an entry for every URL; the dispatch for a
\* URL begins only when the tracker holds True for it and the latest
\* monitor() call, if it recorded a result for the URL, got the answer 200
\* from it; and a delivery is attempted only within such a dispatch.
C13_CycleOrdering ==
  /\ [](\A n \in 1..Len(url_status) : url_status[n].url = urls_to_check[n])
  /\ [](\A n \in 1..NumUrls :
          probes[n] \notin {"unprobed", "skipped"} =>
            \A m \in 1..(n - 1) : probes[m] \in Responses \cup RequestExceptions)
  /\ [](pc \in {"items", "users", "fetch", "send", "sleep"} =>
          /\ Len(url_status) = NumUrls
          /\ \A n \in 1..NumUrls : probes[n] # "unprobed")
  /\ [][(pc = "items" /\ pc' = "users") =>
          /\ url_status_for(url_status, url_status[i].url) = "True"
          /\ probes[Current] \in Responses \cup RequestExceptions =>
               probes[Current] = "200"]_vars
  /\ [][(attempted' # attempted /\ attempted' # {}) =>
          /\ pc \in {"fetch", "send"}
          /\ attempted' = attempted \cup {users[j]}]_vars

C13_Witness ==
  /\ probes[1] = "200"
  /\ probes[2] = "404"
  /\ pc = "sleep"
  /\ extra.pc = "none"
  /\ \E u \in Users :
       tried[<<urls_to_check[1], u>>] = 1 /\ tried[<<urls_to_check[2], u>>] = 0

\* C15 (as claimed): wherever the monitoring coroutine stands at a probe
\* call, a delivery call or the sleep (and no other coroutine is running),
\* a button handler can run.
C15_ProbeIsYieldPoint ==
  (pc \in {"monitor", "fetch", "send", "sleep"} /\ XYielded) =>
    ENABLED SubscribeButton

\* C16 (as claimed): between two probe phases at most one delivery attempt
\* is made per URL and user, failed or not; a failed delivery is not
\* attempted again before the next probe phase.  (Read where no exception
\* has ended a coroutine.)
C16_OneAttemptPerPair ==
  (pc # "dead" /\ extra.pc # "dead") => \A p \in Pairs : tried[p] <= 1

\* C17 (as claimed): get_subscribed_users raising in the loop does not end
\* the coroutine: the coroutine is ended by nothing but an exception that
\* leaves monitor().
C17_StoreReadFailureContained ==
  [][(pc # "dead" /\ pc' = "dead") => pc = "monitor"]_vars

\* The identities list_subscribed() names.
ListedSet(file) == {Listed(file)[n] : n \in 1..Len(Listed(file))}

\* C18: in a store with its table, count() is the size of
\* list_subscribed(), is_subscribed(u) holds exactly for the identities
\* list_subscribed() names, and every record has is_subscribed = true.
C18_RowsAreSubscribers ==
  db.exists =>
    /\ Count(db) = Len(Listed(db))
    /\ \A u \in Users : Present(db, u) <=> u \in ListedSet(db)
    /\ \A n \in 1..Len(db.rows) : db.rows[n].is_subscribed

C18_Witness ==
  /\ call.op = "unsubscribe_user"
  /\ call.pre.exists
  /\ ~call.raised
  /\ Present(call.pre, call.user_id)
  /\ ~Present(db, call.user_id)
  /\ Len(Listed(call.pre)) = 2
  /\ Len(Listed(db)) = 1

\* C19: the list read for a URL names only identities that are in the
\* store at the read, none of them an identity that has unsubscribed and
\* not subscribed again; every attempt for that URL goes to an identity of
\* that list.
C19_SnapshotPerUrl ==
  /\ [][(pc = "items" /\ pc' = "users") =>
          \A n \in 1..Len(users') :
            users'[n] \in InStore(db) /\ users'[n] \notin left]_vars
  /\ [](Dispatching => attempted \subseteq {users[n] : n \in 1..(j - 1)})

\* An identity that unsubscribed after the read is still being delivered to.
C19_Witness ==
  /\ pc = "send"
  /\ users[j] \in left
  /\ users[j] \notin InStore(db)

\* C14 (as claimed): however often the ready event fires, at most one
\* monitoring coroutine is alive.
C14_SingleWorker ==
  ~(pc \notin {"none", "dead"} /\ extra.pc \notin {"none", "dead"})

====
